---------------------------- MODULE Spec2Model ----------------------------
(***************************************************************************)
(* A model of the message pipeline of BotApp (src/src/bot/bot.ts): the     *)
(* classification of an incoming update, the photo branch, the text branch *)
(* with its paced delivery loop, and the token masking helper.             *)
(*                                                                         *)
(* Strings are sequences of one-character strings, so that joining,        *)
(* concatenation and regular-expression replacement are computed and not   *)
(* assumed.  An optional value (T | undefined) is a sequence of length at   *)
(* most one: <<>> is undefined and <<v>> is the value v.                   *)
(***************************************************************************)
EXTENDS Integers, Sequences, FiniteSets, TLC

VARIABLES
    botToken,         \* options.botToken
    aiClient,         \* whether options.aiClient is a client (TRUE) or missing
    pc,               \* the await the handler of the update is suspended at
    ctx,              \* the update being processed
    messages,         \* allMessagesHandler: the TelegramMessageType built from ctx
    photo,            \* handlePhoto: its photo argument {photoUrl, caption}
    message,          \* handlePhoto: the result of chatWithImage
    messageContext,   \* handleMessageText: its messageContext argument
    chatMessages,     \* handleMessageText: the result of aiClient.chat
    idx,              \* handleMessageText: position of the for-of loop (1-based)
    countNoResponse,  \* handleMessageText: countNoResponse
    inflight,         \* external calls issued and not yet settled
    replies,          \* texts of the ctx.reply calls that resolved, in order
    store,            \* entities of the insert calls that resolved, in order
    calls,            \* invocations of aiClient.chat / chatWithImage, in order
    errorLog,         \* what bot.catch logged
    maskPc,           \* position of the masking round trip
    maskIn,           \* text given to maskBotToken(_, 'mask')
    masked,           \* maskBotToken(maskIn, 'mask')
    unmasked,         \* maskBotToken(masked, 'unmask')
    remasked,         \* maskBotToken(unmasked, 'mask')
    savePc,           \* position of saveTextMessages
    saveFrom,         \* saveTextMessages: ctx.from?.id
    saveMessages,     \* saveTextMessages: its messages argument
    saveSenderId,     \* saveTextMessages: its senderId argument
    messageRowsPromise, \* saveTextMessages: the promises of the entities, in order
    messageRows,      \* saveTextMessages: the result of Promise.all
    batchCalls        \* arguments of the insertBatch calls, in order

pipelineVars == <<pc, ctx, messages, photo, message, messageContext, chatMessages,
                  idx, countNoResponse, inflight, replies, store, calls, errorLog>>
maskVars == <<maskPc, maskIn, masked, unmasked, remasked>>
saveVars == <<savePc, saveFrom, saveMessages, saveSenderId, messageRowsPromise, messageRows,
              batchCalls>>
vars == <<botToken, aiClient, pipelineVars, maskVars, saveVars>>

(***************************************************************************)
(* Bounds of the model.                                                    *)
(***************************************************************************)
MaxTokenLen == 2
MaxTextLen == 3
MaxOutputs == 3
MaxBatch == 3

(***************************************************************************)
(* Optional values and JavaScript truthiness of (optional) strings.        *)
(***************************************************************************)
None == <<>>
Some(v) == <<v>>
IsDef(o) == Len(o) = 1
Val(o) == o[1]
\* !x is false exactly for a defined, non-empty string
Truthy(o) == IsDef(o) /\ Val(o) # <<>>
\* a || b
OrElse(a, b) == IF Truthy(a) THEN a ELSE b

RECURSIVE SeqsUpTo(_, _)
SeqsUpTo(S, n) ==
    IF n = 0 THEN {<<>>}
    ELSE LET shorter == SeqsUpTo(S, n - 1)
         IN  shorter \cup {Append(s, c) : s \in {t \in shorter : Len(t) = n - 1}, c \in S}

\* s occurs in t as a contiguous substring
Contains(t, s) ==
    \E i \in 1..(Len(t) - Len(s) + 1) : SubSeq(t, i, i + Len(s) - 1) = s

(***************************************************************************)
(* Regular expressions, for the patterns maskBotToken builds.  A pattern   *)
(* is the string handed to new RegExp(_, 'g'), read character by           *)
(* character: "." matches any character but a line terminator, "$" (no m   *)
(* flag) matches the empty string at the end of the input only, and every  *)
(* other character of the alphabets used here ("{", "}", "_", letters,     *)
(* digits, ":", "/") matches itself.                                       *)
(***************************************************************************)
LineTerminators == {"\n", "\r"}

\* The position after a match of pattern[k..] at text position pos, 0 if none.
RECURSIVE MatchFrom(_, _, _, _)
MatchFrom(pattern, text, k, pos) ==
    IF k > Len(pattern) THEN pos
    ELSE IF pattern[k] = "$"
         THEN IF pos = Len(text) + 1 THEN MatchFrom(pattern, text, k + 1, pos) ELSE 0
    ELSE IF pos > Len(text) THEN 0
    ELSE IF pattern[k] = "."
         THEN IF text[pos] \notin LineTerminators
              THEN MatchFrom(pattern, text, k + 1, pos + 1) ELSE 0
    ELSE IF text[pos] = pattern[k]
         THEN MatchFrom(pattern, text, k + 1, pos + 1) ELSE 0

\* The replacement text of String.prototype.replace: "$$" stands for "$"; a "$"
\* before any other character of the alphabets used here stands for itself.
RECURSIVE ExpandReplacement(_)
ExpandReplacement(r) ==
    IF r = <<>> THEN <<>>
    ELSE IF Len(r) >= 2 /\ r[1] = "$" /\ r[2] = "$"
         THEN <<"$">> \o ExpandReplacement(SubSeq(r, 3, Len(r)))
    ELSE <<r[1]>> \o ExpandReplacement(Tail(r))

\* text.replace(new RegExp(pattern, 'g'), replacement), scanning from position i:
\* the leftmost match is replaced and the scan resumes after it (one character
\* further after an empty match).
RECURSIVE ReplaceFrom(_, _, _, _)
ReplaceFrom(pattern, text, replacement, i) ==
    LET e == MatchFrom(pattern, text, 1, i)
    IN  IF e = 0
        THEN IF i > Len(text) THEN <<>>
             ELSE <<text[i]>> \o ReplaceFrom(pattern, text, replacement, i + 1)
        ELSE IF e = i
        THEN ExpandReplacement(replacement)
             \o (IF i > Len(text) THEN <<>>
                 ELSE <<text[i]>> \o ReplaceFrom(pattern, text, replacement, i + 1))
        ELSE ExpandReplacement(replacement)
             \o ReplaceFrom(pattern, text, replacement, e)

RegExpReplaceAll(text, pattern, replacement) == ReplaceFrom(pattern, text, replacement, 1)

(***************************************************************************)
(* maskBotToken                                                            *)
(***************************************************************************)
\* '${{BOT_TOKEN}}'
Placeholder == <<"$", "{", "{", "B", "O", "T", "_", "T", "O", "K", "E", "N", "}", "}">>

maskBotToken(token, text, action) ==
    IF action = "mask"
    THEN RegExpReplaceAll(text, token, Placeholder)
    ELSE RegExpReplaceAll(text, Placeholder, token)

(***************************************************************************)
(* Inputs.                                                                 *)
(***************************************************************************)
TokenChars == {"T", ".", "$"}
TextChars == {"T", "b", ".", "$"}
Tokens == SeqsUpTo(TokenChars, MaxTokenLen) \ {<<>>}
\* the tokens the pipeline runs under: one shaped like a Telegram token, one with
\* a "." and one with a "$"
BotTokens == {<<"7", ":", "A">>, <<"T", ".">>, <<"T", "$">>}
Texts == SeqsUpTo(TextChars, MaxTextLen)

(***************************************************************************)
(* The masking round trip: mask, then unmask, then mask again.             *)
(***************************************************************************)
MaskInit ==
    /\ maskPc = "input"
    /\ maskIn \in Texts
    /\ masked = <<>>
    /\ unmasked = <<>>
    /\ remasked = <<>>

Mask ==
    /\ maskPc = "input"
    /\ masked' = maskBotToken(botToken, maskIn, "mask")
    /\ maskPc' = "masked"
    /\ UNCHANGED <<maskIn, unmasked, remasked>>
    /\ UNCHANGED <<botToken, aiClient, pipelineVars, saveVars>>

Unmask ==
    /\ maskPc = "masked"
    /\ unmasked' = maskBotToken(botToken, masked, "unmask")
    /\ maskPc' = "unmasked"
    /\ UNCHANGED <<maskIn, masked, remasked>>
    /\ UNCHANGED <<botToken, aiClient, pipelineVars, saveVars>>

Remask ==
    /\ maskPc = "unmasked"
    /\ remasked' = maskBotToken(botToken, unmasked, "mask")
    /\ maskPc' = "remasked"
    /\ UNCHANGED <<maskIn, masked, unmasked>>
    /\ UNCHANGED <<botToken, aiClient, pipelineVars, saveVars>>

(***************************************************************************)
(* Strings of the program.                                                 *)
(***************************************************************************)
\* TelegramApiClient.baseUrl
baseUrl == <<"h", "t", "t", "p", "s", ":", "/", "/", "a", "p", "i", ".", "t", "e", "l", "e", "g", "r", "a", "m", ".", "o", "r", "g">>
\* the language table t is imported; each notice is one opaque symbol
sorryICannotUnderstandMessageType == <<"t.sorryICannotUnderstandMessageType">>
sorryICannotUnderstand == <<"t.sorryICannotUnderstand">>
\* `${t.readingImage}...`
readingImageNotice == <<"t.readingImage">> \o <<".", ".", ".">>
\* `${t.sorryICannotUnderstand} (aiClient is not available)`
aiClientNotAvailableNotice == sorryICannotUnderstand \o <<" ", "(", "a", "i", "C", "l", "i", "e", "n", "t", " ", "i", "s", " ", "n", "o", "t", " ", "a", "v", "a", "i", "l", "a", "b", "l", "e", ")">>
pleaseSendTextNotice == <<"P", "l", "e", "a", "s", "e", " ", "s", "e", "n", "d", " ", "a", " ", "t", "e", "x", "t", " ", "m", "e", "s", "s", "a", "g", "e">>
\* the separator of messages.join('\\n'): a backslash and an n
joinSeparator == <<"\\", "n">>
\* `Previous message: ${replyToMessage}`
previousMessagePrefix == <<"P", "r", "e", "v", "i", "o", "u", "s", " ", "m", "e", "s", "s", "a", "g", "e", ":", " ">>
persona == <<"f", "r", "i", "e", "n", "d">>

\* String(n) for the ids used here, and String(undefined)
Digits == <<"0", "1", "2", "3", "4", "5", "6", "7", "8", "9">>
StringOfId(optId) ==
    IF IsDef(optId) THEN <<Digits[Val(optId) + 1]>>
    ELSE <<"u", "n", "d", "e", "f", "i", "n", "e", "d">>

\* the sender id of the bot's own entry in handleMessageText: String(0)
BotSenderId == 0
\* delay(100)
PacingDelay == 100

\* Array.prototype.join
RECURSIVE Join(_, _)
Join(list, sep) ==
    IF list = <<>> THEN <<>>
    ELSE IF Len(list) = 1 THEN list[1]
    ELSE list[1] \o sep \o Join(Tail(list), sep)

\* TelegramApiClient.getFileUrl
getFileUrl(token, filePath) ==
    baseUrl \o <<"/", "f", "i", "l", "e", "/", "b", "o", "t">> \o token \o <<"/">> \o filePath

\* new MessageEntity({payload, userId, senderId, type})
MessageEntity(payload, userId, senderId, type) ==
    [payload |-> payload, userId |-> userId, senderId |-> senderId, type |-> type]

(***************************************************************************)
(* Updates.  An update carries an optional text, an optional caption,      *)
(* whether it has a photo, an optional replied-to message (with its own    *)
(* optional text) and an optional sender id.                               *)
(***************************************************************************)
UserIds == {7}
IncomingTexts == {<<>>, <<"h", "i">>}
Captions == {<<>>, <<"c">>}
RepliedTexts == {<<>>, <<"p", "r", "e", "v">>}
FilePaths == {<<>>, <<"f", ".", "j">>}
OutputTexts == {<<>>, <<"h", "i">>, <<"y", "o">>}
ImageResults == {None, Some(<<>>), Some(<<"o", "k">>)}
ChatResults == SeqsUpTo(OutputTexts, MaxOutputs)

Opt(S) == {None} \cup {Some(v) : v \in S}

Updates ==
    [text : Opt(IncomingTexts),
     caption : Opt(Captions),
     hasPhoto : BOOLEAN,
     reply_to_message : Opt([text : Opt(RepliedTexts)]),
     from : Opt(UserIds)]

NoUpdate ==
    [text |-> None, caption |-> None, hasPhoto |-> FALSE,
     reply_to_message |-> None, from |-> None]

NoMessages == [replyToMessage |-> None, text |-> None, caption |-> None, photo |-> None]

(***************************************************************************)
(* External calls.  Every call the handler awaits is issued when the code  *)
(* reaches it and settles in a later step: it resolves (the action named   *)
(* after the await) or rejects (CallThrows).                               *)
(***************************************************************************)
ReplyCall(text) == [op |-> "reply", arg |-> text]
InsertCall(entity) == [op |-> "insert", arg |-> entity]
GetFileCall == [op |-> "getFile", arg |-> <<>>]
ChatCall(inputs, context) ==
    [op |-> "chat", arg |-> [fn |-> "chat", persona |-> persona, inputs |-> inputs,
                             context |-> context, imageUrl |-> <<>>]]
ChatWithImageCall(inputs, imageUrl) ==
    [op |-> "chatWithImage",
     arg |-> [fn |-> "chatWithImage", persona |-> persona, inputs |-> inputs,
              context |-> <<>>, imageUrl |-> imageUrl]]
DelayCall(ms) == [op |-> "delay", arg |-> ms]

\* the awaited call has settled
Settled == IF inflight = <<>> THEN <<>> ELSE Tail(inflight)

\* a faulty variant of await that issues the call while the previous one is
\* still outstanding
AwaitNotSettled(p, call) ==
    /\ pc' = p
    /\ inflight' = Append(inflight, call)

\* await <call>: the handler suspends at position p until the call settles
Await(p, call) ==
    /\ pc' = p
    /\ inflight' = Append(Settled, call)

\* the handler returns
Return ==
    /\ pc' = "done"
    /\ inflight' = Settled

\* a faulty variant of the error handler that also tells the user
CaughtWithNotice(at, call) ==
    /\ pc' = "failed"
    /\ inflight' = <<>>
    /\ errorLog' = Append(errorLog, [at |-> at, call |-> call])
    /\ replies' = Append(replies, sorryICannotUnderstand)

\* an exception leaves the handler: bot.catch logs it (init, lines 101-103)
Caught(at, call) ==
    /\ pc' = "failed"
    /\ inflight' = <<>>
    /\ errorLog' = Append(errorLog, [at |-> at, call |-> call])
    /\ UNCHANGED replies

(***************************************************************************)
(* allMessagesHandler                                                      *)
(***************************************************************************)
\* lines 158-163, given the file_path getFile resolved to (if it was called)
Classified(u, filePath) ==
    [replyToMessage |-> IF IsDef(u.reply_to_message)
                        THEN Val(u.reply_to_message).text ELSE None,
     text |-> u.text,
     caption |-> u.caption,
     photo |-> IF u.hasPhoto THEN filePath ELSE None]

\* a faulty variant of line 164 with the test of photo inverted
IsUnclassifiableWrongPhoto(m) == ~IsDef(m.text) /\ ~IsDef(m.caption) /\ IsDef(m.photo)

\* line 164
IsUnclassifiable(m) == ~IsDef(m.text) /\ ~IsDef(m.caption) /\ ~IsDef(m.photo)

\* line 169
IncomingMessageOf(m) == OrElse(m.text, m.caption)

\* a faulty variant of line 176 that does not test the sender
CannotUnderstandIgnoringSender(u, m) == ~Truthy(IncomingMessageOf(m))

\* line 176
CannotUnderstand(u, m) == ~Truthy(IncomingMessageOf(m)) \/ ~IsDef(u.from)

\* a faulty variant of lines 180-185 that attributes the incoming text to the bot
IncomingEntityFromBot(u, m) ==
    MessageEntity(Val(IncomingMessageOf(m)), StringOfId(u.from), <<"0">>, "text")

\* lines 180-185
IncomingEntity(u, m) ==
    MessageEntity(Val(IncomingMessageOf(m)), StringOfId(u.from), StringOfId(u.from), "text")

\* lines 164-185: from the classification to the first await after it
Dispatch(u, m) ==
    /\ messages' = m
    /\ IF IsUnclassifiable(m)
       THEN /\ Await("reply_unclassifiable", ReplyCall(sorryICannotUnderstandMessageType))
            /\ UNCHANGED photo
       ELSE IF Truthy(m.photo)
       THEN /\ photo' = [photoUrl |-> getFileUrl(botToken, Val(m.photo)),
                         caption |-> IncomingMessageOf(m)]
            /\ Await("photo_ack", ReplyCall(readingImageNotice))
       ELSE IF CannotUnderstand(u, m)
       THEN /\ Await("reply_cannot", ReplyCall(sorryICannotUnderstand))
            /\ UNCHANGED photo
       ELSE /\ Await("insert_incoming", InsertCall(IncomingEntity(u, m)))
            /\ UNCHANGED photo

\* bot.on('message'): an update arrives and allMessagesHandler starts
ReceiveUpdate ==
    /\ pc = "idle"
    /\ \E u \in Updates :
          /\ ctx' = u
          /\ IF u.hasPhoto
             THEN /\ Await("getFile", GetFileCall)
                  /\ UNCHANGED <<messages, photo>>
             ELSE Dispatch(u, Classified(u, None))
    /\ UNCHANGED <<botToken, aiClient, message, messageContext, chatMessages, idx,
                   countNoResponse, replies, store, calls, errorLog, maskVars, saveVars>>

\* line 162: ctx.getFile() resolves
GetFileReturns ==
    /\ pc = "getFile"
    /\ \E filePath \in Opt(FilePaths) : Dispatch(ctx, Classified(ctx, filePath))
    /\ UNCHANGED <<botToken, aiClient, ctx, message, messageContext, chatMessages, idx,
                   countNoResponse, replies, store, calls, errorLog, maskVars, saveVars>>

\* lines 165-166
UnclassifiableReplied ==
    /\ pc = "reply_unclassifiable"
    /\ replies' = Append(replies, inflight[1].arg)
    /\ Return
    /\ UNCHANGED <<botToken, aiClient, ctx, messages, photo, message, messageContext,
                   chatMessages, idx, countNoResponse, store, calls, errorLog, maskVars, saveVars>>

\* lines 177-178
CannotUnderstandReplied ==
    /\ pc = "reply_cannot"
    /\ replies' = Append(replies, inflight[1].arg)
    /\ Return
    /\ UNCHANGED <<botToken, aiClient, ctx, messages, photo, message, messageContext,
                   chatMessages, idx, countNoResponse, store, calls, errorLog, maskVars, saveVars>>

(***************************************************************************)
(* handlePhoto                                                             *)
(***************************************************************************)
\* line 122
IncomingMessagesOf(ph) == IF Truthy(ph.caption) THEN <<Val(ph.caption)>> ELSE <<>>

\* lines 124-129
CaptionEntity(u, ph) ==
    MessageEntity(Val(ph.caption), StringOfId(u.from), StringOfId(u.from), "text")

\* lines 131-136
PhotoEntity(u, ph) ==
    MessageEntity(maskBotToken(botToken, ph.photoUrl, "mask"),
                  StringOfId(u.from), StringOfId(u.from), "photo")

\* lines 143-148
PhotoReplyEntity(u, msg) ==
    MessageEntity(msg, StringOfId(u.from), StringOfId(u.from), "text")

\* a faulty variant of line 123 that never persists the caption
HasCaptionNever(ph) == FALSE

\* line 123: if (photo.caption)
HasCaption(ph) == Truthy(ph.caption)

\* line 121 resolves; lines 122-131
PhotoAckReplied ==
    /\ pc = "photo_ack"
    /\ replies' = Append(replies, inflight[1].arg)
    /\ IF HasCaption(photo)
       THEN Await("photo_insert_caption", InsertCall(CaptionEntity(ctx, photo)))
       ELSE Await("photo_insert_photo", InsertCall(PhotoEntity(ctx, photo)))
    /\ UNCHANGED <<botToken, aiClient, ctx, messages, photo, message, messageContext,
                   chatMessages, idx, countNoResponse, store, calls, errorLog, maskVars, saveVars>>

\* line 124 resolves; line 131
PhotoCaptionInserted ==
    /\ pc = "photo_insert_caption"
    /\ store' = Append(store, inflight[1].arg)
    /\ Await("photo_insert_photo", InsertCall(PhotoEntity(ctx, photo)))
    /\ UNCHANGED <<botToken, aiClient, ctx, messages, photo, message, messageContext,
                   chatMessages, idx, countNoResponse, replies, calls, errorLog, maskVars, saveVars>>

\* line 131 resolves; line 137 (a missing aiClient throws a TypeError there)
PhotoInserted ==
    /\ pc = "photo_insert_photo"
    /\ store' = Append(store, inflight[1].arg)
    /\ LET call == ChatWithImageCall(IncomingMessagesOf(photo), photo.photoUrl)
       IN  IF aiClient
           THEN /\ calls' = Append(calls, call.arg)
                /\ Await("photo_chat", call)
                /\ UNCHANGED <<errorLog, replies>>
           ELSE /\ Caught("photo_chat", call)
                /\ UNCHANGED calls
    /\ UNCHANGED <<botToken, aiClient, ctx, messages, photo, message, messageContext,
                   chatMessages, idx, countNoResponse, maskVars, saveVars>>

\* a faulty variant of line 138 that takes an empty text for a usable one
NoUsableTextOnlyUndefined(result) == ~IsDef(result)

\* line 138: !message
NoUsableText(result) == ~Truthy(result)

\* line 137 resolves; lines 138-142
ChatWithImageReturns ==
    /\ pc = "photo_chat"
    /\ \E result \in ImageResults :
          /\ message' = result
          /\ IF NoUsableText(result)
             THEN Await("photo_reply_sorry", ReplyCall(sorryICannotUnderstand))
             ELSE Await("photo_reply", ReplyCall(Val(result)))
    /\ UNCHANGED <<botToken, aiClient, ctx, messages, photo, messageContext, chatMessages,
                   idx, countNoResponse, replies, store, calls, errorLog, maskVars, saveVars>>

\* lines 139-140
PhotoSorryReplied ==
    /\ pc = "photo_reply_sorry"
    /\ replies' = Append(replies, inflight[1].arg)
    /\ Return
    /\ UNCHANGED <<botToken, aiClient, ctx, messages, photo, message, messageContext,
                   chatMessages, idx, countNoResponse, store, calls, errorLog, maskVars, saveVars>>

\* line 142 resolves; line 143
PhotoReplied ==
    /\ pc = "photo_reply"
    /\ replies' = Append(replies, inflight[1].arg)
    /\ Await("photo_insert_reply", InsertCall(PhotoReplyEntity(ctx, Val(message))))
    /\ UNCHANGED <<botToken, aiClient, ctx, messages, photo, message, messageContext,
                   chatMessages, idx, countNoResponse, store, calls, errorLog, maskVars, saveVars>>

\* line 143 resolves; handlePhoto and allMessagesHandler (line 174) return
PhotoReplyInserted ==
    /\ pc = "photo_insert_reply"
    /\ store' = Append(store, inflight[1].arg)
    /\ Return
    /\ UNCHANGED <<botToken, aiClient, ctx, messages, photo, message, messageContext,
                   chatMessages, idx, countNoResponse, replies, calls, errorLog, maskVars, saveVars>>

(***************************************************************************)
(* handleMessageText                                                       *)
(***************************************************************************)
\* a faulty variant of line 211 that passes the replied-to text as it is
previousMessageUnprefixed(replyToMessage) ==
    IF Truthy(replyToMessage) THEN <<Val(replyToMessage)>> ELSE <<>>

\* line 211
previousMessage(replyToMessage) ==
    IF Truthy(replyToMessage) THEN <<previousMessagePrefix \o Val(replyToMessage)>> ELSE <<>>

\* lines 217-222
JoinedReplyEntity(u, outputs) ==
    MessageEntity(Join(outputs, joinSeparator), StringOfId(u.from),
                  StringOfId(Some(BotSenderId)), "text")

\* line 225: !message
IsNoResponse(output) == output = <<>>

\* the first position at or after i of an output the loop does not skip
RECURSIVE NextResponse(_, _)
NextResponse(outputs, i) ==
    IF i > Len(outputs) THEN i
    ELSE IF IsNoResponse(outputs[i]) THEN NextResponse(outputs, i + 1)
    ELSE i

\* a faulty variant of line 232 that fires as soon as one output was empty
AnyNoResponse(count, outputs) == count > 0

\* a faulty variant of line 232 that stays silent on an empty list
AllNoResponseOfSome(count, outputs) == count = Len(outputs) /\ Len(outputs) > 0

\* line 232
AllNoResponse(count, outputs) == count = Len(outputs)

\* a faulty variant of lines 224-235 without the notice of lines 232-235
DeliverFromSilent(outputs, i, count) ==
    LET j == NextResponse(outputs, i)
    IN  /\ idx' = j
        /\ countNoResponse' = count + (j - i)
        /\ IF j <= Len(outputs)
           THEN Await("text_delay", DelayCall(PacingDelay))
           ELSE Return

\* lines 224-235: the loop from position i up to its next await, or to the end of
\* the function
DeliverFrom(outputs, i, count) ==
    LET j == NextResponse(outputs, i)
        skipped == count + (j - i)
    IN  /\ idx' = j
        /\ countNoResponse' = skipped
        /\ IF j <= Len(outputs)
           THEN Await("text_delay", DelayCall(PacingDelay))
           ELSE IF AllNoResponse(skipped, outputs)
           THEN Await("text_reply_sorry", ReplyCall(sorryICannotUnderstand))
           ELSE Return

\* line 180 resolves; lines 186-216
IncomingInserted ==
    /\ pc = "insert_incoming"
    /\ store' = Append(store, inflight[1].arg)
    /\ messageContext' = [incomingMessage |-> IncomingMessageOf(messages),
                          replyToMessage |-> messages.replyToMessage]
    /\ IF ~aiClient
       THEN /\ Await("reply_early", ReplyCall(aiClientNotAvailableNotice))
            /\ UNCHANGED calls
       ELSE IF ~Truthy(messageContext'.incomingMessage)
       THEN /\ Await("reply_early", ReplyCall(pleaseSendTextNotice))
            /\ UNCHANGED calls
       ELSE LET call == ChatCall(<<Val(messageContext'.incomingMessage)>>,
                                 previousMessage(messageContext'.replyToMessage))
            IN  /\ calls' = Append(calls, call.arg)
                /\ Await("text_chat", call)
    /\ UNCHANGED <<botToken, aiClient, ctx, messages, photo, message, chatMessages, idx,
                   countNoResponse, replies, errorLog, maskVars, saveVars>>

\* lines 204-205 and 208-209
EarlyReplied ==
    /\ pc = "reply_early"
    /\ replies' = Append(replies, inflight[1].arg)
    /\ Return
    /\ UNCHANGED <<botToken, aiClient, ctx, messages, photo, message, messageContext,
                   chatMessages, idx, countNoResponse, store, calls, errorLog, maskVars, saveVars>>

\* a faulty variant of lines 216-223 that starts the delivery without writing the
\* joined response first
ChatReturnsDeliverFirst ==
    /\ pc = "text_chat"
    /\ \E outputs \in ChatResults :
          /\ chatMessages' = outputs
          /\ DeliverFrom(outputs, 1, 0)
    /\ UNCHANGED <<botToken, aiClient, ctx, messages, photo, message, messageContext,
                   replies, store, calls, errorLog, maskVars, saveVars>>

\* line 216 resolves; line 217
ChatReturns ==
    /\ pc = "text_chat"
    /\ \E outputs \in ChatResults :
          /\ chatMessages' = outputs
          /\ Await("text_insert_reply", InsertCall(JoinedReplyEntity(ctx, outputs)))
    /\ UNCHANGED <<botToken, aiClient, ctx, messages, photo, message, messageContext, idx,
                   countNoResponse, replies, store, calls, errorLog, maskVars, saveVars>>

\* line 217 resolves; lines 223-235
JoinedReplyInserted ==
    /\ pc = "text_insert_reply"
    /\ store' = Append(store, inflight[1].arg)
    /\ DeliverFrom(chatMessages, 1, 0)
    /\ UNCHANGED <<botToken, aiClient, ctx, messages, photo, message, messageContext,
                   chatMessages, replies, calls, errorLog, maskVars, saveVars>>

\* line 229 resolves; line 230
DelayElapsed ==
    /\ pc = "text_delay"
    /\ Await("text_send", ReplyCall(chatMessages[idx]))
    /\ UNCHANGED <<botToken, aiClient, ctx, messages, photo, message, messageContext,
                   chatMessages, idx, countNoResponse, replies, store, calls, errorLog,
                   maskVars, saveVars>>

\* line 230 resolves; the loop goes on (lines 224-235)
OutputReplied ==
    /\ pc = "text_send"
    /\ replies' = Append(replies, inflight[1].arg)
    /\ DeliverFrom(chatMessages, idx + 1, countNoResponse)
    /\ UNCHANGED <<botToken, aiClient, ctx, messages, photo, message, messageContext,
                   chatMessages, store, calls, errorLog, maskVars, saveVars>>

\* lines 233-234
AllEmptyReplied ==
    /\ pc = "text_reply_sorry"
    /\ replies' = Append(replies, inflight[1].arg)
    /\ Return
    /\ UNCHANGED <<botToken, aiClient, ctx, messages, photo, message, messageContext,
                   chatMessages, idx, countNoResponse, store, calls, errorLog, maskVars, saveVars>>

(***************************************************************************)
(* Failure of a collaborator: the awaited call rejects, nothing in         *)
(* handlePhoto, allMessagesHandler or handleMessageText catches it, and    *)
(* the error reaches bot.catch.  The timer of delay never rejects.         *)
(***************************************************************************)
CallThrows ==
    /\ pc \notin {"idle", "done", "failed"}
    /\ inflight # <<>>
    /\ inflight[1].op # "delay"
    /\ Caught(pc, inflight[1])
    /\ UNCHANGED <<botToken, aiClient, ctx, messages, photo, message, messageContext,
                   chatMessages, idx, countNoResponse, store, calls, maskVars, saveVars>>

(***************************************************************************)
(* Specifications.                                                         *)
(***************************************************************************)
PipelineInit ==
    /\ pc = "idle"
    /\ ctx = NoUpdate
    /\ messages = NoMessages
    /\ photo = [photoUrl |-> <<>>, caption |-> None]
    /\ message = None
    /\ messageContext = [incomingMessage |-> None, replyToMessage |-> None]
    /\ chatMessages = <<>>
    /\ idx = 0
    /\ countNoResponse = 0
    /\ inflight = <<>>
    /\ replies = <<>>
    /\ store = <<>>
    /\ calls = <<>>
    /\ errorLog = <<>>

\* saveTextMessages has not been called
SaveIdle ==
    /\ savePc = "idle"
    /\ saveFrom = None
    /\ saveMessages = <<>>
    /\ saveSenderId = 0
    /\ messageRowsPromise = <<>>
    /\ messageRows = <<>>
    /\ batchCalls = <<>>

\* the state after new BotApp(options).init(); the masking round trip is at rest
Init ==
    /\ botToken \in BotTokens
    /\ aiClient \in BOOLEAN
    /\ PipelineInit
    /\ maskPc = "input"
    /\ maskIn = <<>>
    /\ masked = <<>>
    /\ unmasked = <<>>
    /\ remasked = <<>>
    /\ SaveIdle

Next ==
    \/ ReceiveUpdate
    \/ GetFileReturns
    \/ UnclassifiableReplied
    \/ CannotUnderstandReplied
    \/ PhotoAckReplied
    \/ PhotoCaptionInserted
    \/ PhotoInserted
    \/ ChatWithImageReturns
    \/ PhotoSorryReplied
    \/ PhotoReplied
    \/ PhotoReplyInserted
    \/ IncomingInserted
    \/ EarlyReplied
    \/ ChatReturns
    \/ JoinedReplyInserted
    \/ DelayElapsed
    \/ OutputReplied
    \/ AllEmptyReplied
    \/ CallThrows

Spec == Init /\ [][Next]_vars

\* an awaited call that does not throw resolves: the platform, the completion
\* service, the store and the timer answer every call
Resolves ==
    \/ GetFileReturns
    \/ UnclassifiableReplied
    \/ CannotUnderstandReplied
    \/ PhotoAckReplied
    \/ PhotoCaptionInserted
    \/ PhotoInserted
    \/ ChatWithImageReturns
    \/ PhotoSorryReplied
    \/ PhotoReplied
    \/ PhotoReplyInserted
    \/ IncomingInserted
    \/ EarlyReplied
    \/ ChatReturns
    \/ JoinedReplyInserted
    \/ DelayElapsed
    \/ OutputReplied
    \/ AllEmptyReplied

SpecFair == Init /\ [][Next]_vars /\ WF_vars(Resolves)

\* maskBotToken applied to every text of Texts under every token of Tokens
InitMask ==
    /\ botToken \in Tokens
    /\ aiClient = TRUE
    /\ PipelineInit
    /\ MaskInit
    /\ SaveIdle

NextMask ==
    \/ Mask
    \/ Unmask
    \/ Remask

SpecMask == InitMask /\ [][NextMask]_vars

(***************************************************************************)
(* saveTextMessages.  The loop of lines 240-248 has no await: it starts    *)
(* the init of every entity and collects the promises.  The promises       *)
(* settle in any order; Promise.all resolves once all have resolved, with  *)
(* their values in the order of the array, and rejects when one rejects.   *)
(***************************************************************************)
\* String(n) of a non-negative number
RECURSIVE StringOfNumber(_)
StringOfNumber(n) ==
    IF n < 10 THEN <<Digits[n + 1]>>
    ELSE StringOfNumber(n \div 10) \o <<Digits[(n % 10) + 1]>>

BatchTexts == {<<"a">>, <<"b">>, <<"c">>}
BatchLists == SeqsUpTo(BatchTexts, MaxBatch)
SenderIds == {0, 42}

\* MessageEntity.init(order): the entity carries the order it was given
InitWithOrder(entity, order) ==
    [payload |-> entity.payload, userId |-> entity.userId, senderId |-> entity.senderId,
     type |-> entity.type, order |-> order]

\* a faulty variant of lines 241-246 that numbers the entities from one
BatchEntityFromOne(from, payload, senderId, order) ==
    InitWithOrder(MessageEntity(payload, StringOfId(from), StringOfNumber(senderId), "text"),
                  order + 1)

\* lines 241-246
BatchEntity(from, payload, senderId, order) ==
    InitWithOrder(MessageEntity(payload, StringOfId(from), StringOfNumber(senderId), "text"),
                  order)

\* lines 238-249: the call, the loop, and the await of Promise.all
SaveTextMessages ==
    /\ savePc = "idle"
    /\ \E from \in Opt(UserIds), list \in BatchLists, senderId \in SenderIds :
          /\ saveFrom' = from
          /\ saveMessages' = list
          /\ saveSenderId' = senderId
          /\ messageRowsPromise' =
                [i \in 1..Len(list) |->
                    [state |-> "pending",
                     value |-> BatchEntity(from, list[i], senderId, i - 1)]]
    /\ savePc' = "promise_all"
    /\ UNCHANGED <<messageRows, batchCalls>>
    /\ UNCHANGED <<botToken, aiClient, pipelineVars, maskVars>>

\* the init of one entity resolves
EntityInitResolves ==
    /\ savePc = "promise_all"
    /\ \E i \in 1..Len(messageRowsPromise) :
          /\ messageRowsPromise[i].state = "pending"
          /\ messageRowsPromise' = [messageRowsPromise EXCEPT ![i].state = "resolved"]
    /\ UNCHANGED <<savePc, saveFrom, saveMessages, saveSenderId, messageRows, batchCalls>>
    /\ UNCHANGED <<botToken, aiClient, pipelineVars, maskVars>>

\* line 249 resolves; line 250
PromiseAllResolves ==
    /\ savePc = "promise_all"
    /\ \A i \in 1..Len(messageRowsPromise) : messageRowsPromise[i].state = "resolved"
    /\ messageRows' = [i \in 1..Len(messageRowsPromise) |-> messageRowsPromise[i].value]
    /\ batchCalls' = Append(batchCalls, messageRows')
    /\ savePc' = "insertBatch"
    /\ UNCHANGED <<saveFrom, saveMessages, saveSenderId, messageRowsPromise>>
    /\ UNCHANGED <<botToken, aiClient, pipelineVars, maskVars>>

\* line 250 resolves; saveTextMessages returns
InsertBatchResolves ==
    /\ savePc = "insertBatch"
    /\ savePc' = "done"
    /\ UNCHANGED <<saveFrom, saveMessages, saveSenderId, messageRowsPromise, messageRows,
                   batchCalls>>
    /\ UNCHANGED <<botToken, aiClient, pipelineVars, maskVars>>

\* an init or insertBatch rejects: saveTextMessages rejects
SaveThrows ==
    /\ savePc \in {"promise_all", "insertBatch"}
    /\ savePc = "promise_all" =>
          \E i \in 1..Len(messageRowsPromise) : messageRowsPromise[i].state = "pending"
    /\ savePc' = "failed"
    /\ UNCHANGED <<saveFrom, saveMessages, saveSenderId, messageRowsPromise, messageRows,
                   batchCalls>>
    /\ UNCHANGED <<botToken, aiClient, pipelineVars, maskVars>>

InitSave ==
    /\ botToken \in BotTokens
    /\ aiClient = TRUE
    /\ PipelineInit
    /\ maskPc = "input"
    /\ maskIn = <<>>
    /\ masked = <<>>
    /\ unmasked = <<>>
    /\ remasked = <<>>
    /\ SaveIdle

NextSave ==
    \/ SaveTextMessages
    \/ EntityInitResolves
    \/ PromiseAllResolves
    \/ InsertBatchResolves
    \/ SaveThrows

SpecSave == InitSave /\ [][NextSave]_vars

(***************************************************************************)
(* Properties.                                                             *)
(***************************************************************************)
LineFeed == <<"\n">>
NonEmptyOutput(output) == output # <<>>
\* the replied-to text of the update, when the update is a reply to a message
\* that has one
IsReply == IsDef(ctx.reply_to_message)
RepliedText == Val(ctx.reply_to_message).text
\* the text branch called aiClient.chat
ChatCalled == calls # <<>> /\ calls[1].fn = "chat"
\* the text branch wrote the entry of the joined response (the second entry of
\* the turn, after the incoming text)
JoinedWritten == ChatCalled /\ Len(store) = 2
\* the photo branch called chatWithImage
ImageChatCalled == calls # <<>> /\ calls[1].fn = "chatWithImage"
\* the photo branch wrote the entry of the completion's text (its last insert)
PhotoReplyWritten == pc = "done" /\ ImageChatCalled /\ Truthy(message)
\* the call whose failure ended the processing of the update
Failed == pc = "failed"
FailedAt == errorLog[1].at
\* a replacement of the literal occurrences of token in text, left to right
RECURSIVE LiteralReplaceAll(_, _, _)
LiteralReplaceAll(text, token, replacement) ==
    IF Len(text) < Len(token) \/ token = <<>> THEN text
    ELSE IF SubSeq(text, 1, Len(token)) = token
         THEN replacement
              \o LiteralReplaceAll(SubSeq(text, Len(token) + 1, Len(text)), token, replacement)
    ELSE <<text[1]>> \o LiteralReplaceAll(Tail(text), token, replacement)

\* C1: in the text branch, the payload of the bot-attributed entry written for
\* the outputs of the completion call is the outputs joined with one line-feed
\* character between consecutive outputs.
C1_JoinedWithLineFeed ==
    JoinedWritten => store[2].payload = Join(chatMessages, LineFeed)

\* C2: every entry whose payload is completion-generated text has senderId "0"
\* and not the human sender's id, in the photo branch and in the text branch;
\* every entry recording inbound content has the human sender's id as senderId.
C2_GeneratedEntriesAreBotAttributed ==
    /\ JoinedWritten =>
          /\ store[2].senderId = <<"0">>
          /\ store[2].senderId # StringOfId(ctx.from)
          /\ store[1].senderId = StringOfId(ctx.from)
    /\ (PhotoReplyWritten /\ IsDef(ctx.from)) =>
          /\ store[Len(store)].senderId = <<"0">>
          /\ store[Len(store)].senderId # StringOfId(ctx.from)
          /\ \A k \in 1..(Len(store) - 1) : store[k].senderId = StringOfId(ctx.from)

\* C3 as stated: the context list passed to the completion call is empty for a
\* text update that is not a reply, and is the one-element list holding the
\* replied-to message's text, unchanged, for one that is a reply.
C3_ContextIsRepliedText ==
    ChatCalled =>
       /\ ~IsReply => calls[1].context = <<>>
       /\ (IsReply /\ IsDef(RepliedText)) => calls[1].context = <<Val(RepliedText)>>

\* C3 as amended: the context list passed to the completion call is empty for a
\* text update that is not a reply or whose replied-to message has no text or an
\* empty text, and is otherwise the one-element list holding "Previous message: "
\* followed by the replied-to message's text.
C3_ContextIsPrefixedRepliedText ==
    ChatCalled =>
       calls[1].context =
          IF IsReply /\ IsDef(RepliedText) /\ Val(RepliedText) # <<>>
          THEN <<previousMessagePrefix \o Val(RepliedText)>>
          ELSE <<>>

C3_Witness ==
    /\ ChatCalled
    /\ IsReply /\ IsDef(RepliedText) /\ Val(RepliedText) = <<"p", "r", "e", "v">>
    /\ Len(calls[1].context) = 1

\* C4 as stated: when a platform, completion or store call throws while an
\* update is processed, no reply at all has been sent for that update.
C4_FailureSendsNothing ==
    Failed => replies = <<>>

\* the replies delivered before the call awaited at position at was issued
RepliesBefore(at) ==
    IF at \in {"photo_insert_caption", "photo_insert_photo", "photo_chat",
               "photo_reply_sorry", "photo_reply"}
    THEN <<readingImageNotice>>
    ELSE IF at = "photo_insert_reply"
    THEN <<readingImageNotice, Val(message)>>
    ELSE IF at = "text_send"
    THEN SelectSeq(SubSeq(chatMessages, 1, idx - 1), NonEmptyOutput)
    ELSE <<>>

\* C4 as amended: when a call throws, nothing is sent for the failure; the
\* replies of the update are exactly those delivered before the failing call:
\* none when file resolution, the first reply of the update, or, in the text
\* branch, an insert or the completion call fails; the "reading image"
\* acknowledgement (and the completion's text, when the last insert fails) in
\* the photo branch; the outputs already delivered when a send of the delivery
\* loop fails.
C4_FailureSendsNothingMore ==
    Failed => /\ Len(errorLog) = 1
              /\ replies = RepliesBefore(FailedAt)

C4_Witness ==
    /\ Failed
    /\ FailedAt = "text_send"
    /\ replies # <<>>

\* C5: when sending the "reading image" acknowledgement fails, the photo branch
\* still persists the photo entry and invokes the image completion call.
C5_AcknowledgementIsBestEffort ==
    (Failed /\ FailedAt = "photo_ack") =>
       /\ \E k \in 1..Len(store) : store[k].type = "photo"
       /\ ImageChatCalled

\* the token has no character that is special in a regular expression
LiteralToken == \A i \in 1..Len(botToken) : botToken[i] \notin {".", "$"}

\* C6: for every token (already for one without special characters) and every
\* text that does not contain the placeholder, unmasking the masked text gives
\* the text back.
C6_UnmaskInvertsMask ==
    (/\ maskPc \in {"unmasked", "remasked"}
     /\ LiteralToken
     /\ ~Contains(maskIn, Placeholder)) =>
       unmasked = maskIn

\* C7: for every non-empty token, the masked text never contains the token, and
\* exactly the literal occurrences of the token are replaced by the placeholder.
C7_MaskIsTotalAndLiteral ==
    maskPc # "input" =>
       /\ masked = LiteralReplaceAll(maskIn, botToken, Placeholder)
       /\ ~Contains(masked, botToken)

\* C8: masking the unmasked masked text gives the masked text,
\* mask(unmask(mask(x))) = mask(x), for every text x (already for a token
\* without special characters).
C8_MaskUnmaskMask ==
    (maskPc = "remasked" /\ LiteralToken) => remasked = masked

\* the update was classified and none of text, caption and photo is populated
NothingPopulated ==
    /\ pc \notin {"idle", "getFile"}
    /\ ~IsDef(messages.text) /\ ~IsDef(messages.caption) /\ ~IsDef(messages.photo)

\* C9: for an update with none of text, caption and photo populated, the
\* pipeline writes nothing to the store, makes no completion call and sends one
\* reply, the "cannot understand message type" notice, and nothing else.
C9_UnclassifiableNotice ==
    NothingPopulated =>
       /\ store = <<>>
       /\ calls = <<>>
       /\ pc \in {"reply_unclassifiable", "done", "failed"}
       /\ pc = "done" => replies = <<sorryICannotUnderstandMessageType>>
       /\ pc # "done" => replies = <<>>

C9_Witness ==
    /\ NothingPopulated
    /\ pc = "done"
    /\ replies = <<sorryICannotUnderstandMessageType>>

\* C10: when the completion call returns a list with at least one non-empty
\* output, the replies sent are exactly the non-empty outputs, one reply each,
\* in list order; empty outputs are skipped and the "cannot understand" notice
\* is not sent.
C10_DeliversNonEmptyOutputsInOrder ==
    (ChatCalled /\ \E i \in 1..Len(chatMessages) : chatMessages[i] # <<>>) =>
       /\ pc \in {"text_delay", "text_send"} =>
             replies = SelectSeq(SubSeq(chatMessages, 1, idx - 1), NonEmptyOutput)
       /\ pc = "done" =>
             /\ replies = SelectSeq(chatMessages, NonEmptyOutput)
             /\ \A k \in 1..Len(replies) : replies[k] # sorryICannotUnderstand

C10_Witness ==
    /\ pc = "done"
    /\ chatMessages = <<<<"h", "i">>, <<>>, <<"y", "o">>>>
    /\ replies = <<<<"h", "i">>, <<"y", "o">>>>

\* the update was classified into the photo branch
PhotoBranch == pc \notin {"idle", "getFile"} /\ Truthy(messages.photo)
\* the text that came with the update: its text, else its caption
IncomingText == OrElse(ctx.text, ctx.caption)

\* C11: when every output of the completion call is empty (the empty list
\* included), the pipeline sends one reply, the "cannot understand" notice, and
\* no other reply.
C11_AllEmptyNotice ==
    (ChatCalled /\ \A i \in 1..Len(chatMessages) : chatMessages[i] = <<>>) =>
       /\ pc \notin {"text_delay", "text_send"}
       /\ replies = IF pc = "done" THEN <<sorryICannotUnderstand>> ELSE <<>>

C11_Witness ==
    /\ pc = "done"
    /\ ChatCalled
    /\ chatMessages = <<<<>>, <<>>>>
    /\ replies = <<sorryICannotUnderstand>>

\* C12: in the text branch the bot-attributed entry of the joined response is in
\* the store before the first reply of the delivery loop, or the "cannot
\* understand" notice, is sent: no reply of the turn, and no pacing delay or
\* send in flight, precedes that write.
C12_JoinedWrittenBeforeDelivery ==
    (ChatCalled /\ (replies # <<>> \/ pc \in {"text_delay", "text_send", "text_reply_sorry"})) =>
       /\ Len(store) = 2
       /\ store[2].senderId = <<"0">>
       /\ store[2].type = "text"
       /\ store[2].payload = Join(chatMessages, joinSeparator)

C12_Witness ==
    /\ pc = "text_send"
    /\ replies = <<>>
    /\ Len(store) = 2

\* C13: the incoming text is in the store, attributed to the human sender,
\* before the completion service is called; when the completion call throws, the
\* store holds that entry and no bot entry.
C13_InputWrittenBeforeCompletion ==
    ChatCalled =>
       /\ Len(store) >= 1
       /\ IsDef(ctx.from)
       /\ store[1] = [payload |-> Val(IncomingText), userId |-> StringOfId(ctx.from),
                      senderId |-> StringOfId(ctx.from), type |-> "text"]
       /\ (Failed /\ FailedAt = "text_chat") => Len(store) = 1

C13_Witness ==
    /\ Failed
    /\ FailedAt = "text_chat"
    /\ Len(store) = 1

\* C14: for a photo update with a caption the caption entry (type text, from the
\* human sender) is written strictly before the photo entry, and both before the
\* image completion call is invoked; without a caption only the photo entry is
\* written before that call.
C14_CaptionBeforePhoto ==
    PhotoBranch =>
       /\ \A k \in 1..Len(store) :
             store[k].type = "photo" =>
                IF Truthy(IncomingText)
                THEN /\ k = 2
                     /\ store[1].type = "text"
                     /\ store[1].payload = Val(IncomingText)
                     /\ store[1].senderId = StringOfId(ctx.from)
                ELSE k = 1
       /\ ImageChatCalled =>
             /\ Len(store) >= (IF Truthy(IncomingText) THEN 2 ELSE 1)
             /\ store[IF Truthy(IncomingText) THEN 2 ELSE 1].type = "photo"

C14_Witness ==
    /\ ImageChatCalled
    /\ pc = "photo_chat"
    /\ Truthy(ctx.caption)
    /\ Len(store) = 2

\* C15: for a text (non-photo) update without a sender identity the pipeline
\* sends the "cannot understand" notice, writes nothing to the store and makes
\* no completion call.
C15_MissingSenderNotice ==
    (/\ pc \notin {"idle", "getFile"}
     /\ ~NothingPopulated
     /\ ~Truthy(messages.photo)
     /\ ~IsDef(ctx.from)) =>
       /\ store = <<>>
       /\ calls = <<>>
       /\ replies = IF pc = "done" THEN <<sorryICannotUnderstand>> ELSE <<>>

C15_Witness ==
    /\ pc = "done"
    /\ ~IsDef(ctx.from)
    /\ ~ctx.hasPhoto
    /\ Truthy(ctx.text)
    /\ replies = <<sorryICannotUnderstand>>

\* C16: when the image completion call returns no usable text (undefined or
\* empty), the photo branch replies with the "cannot understand" notice and
\* stops: the writes of the turn are the optional caption entry and the photo
\* entry, and nothing is written after the completion call.
C16_NoUsableImageCompletion ==
    (pc \in {"photo_reply_sorry", "done"} /\ ImageChatCalled /\ ~Truthy(message)) =>
       /\ replies = IF pc = "done" THEN <<readingImageNotice, sorryICannotUnderstand>>
                    ELSE <<readingImageNotice>>
       /\ Len(store) = (IF Truthy(IncomingText) THEN 2 ELSE 1)
       /\ store[Len(store)].type = "photo"
       /\ Truthy(IncomingText) => store[1].type = "text"

C16_Witness ==
    /\ pc = "done"
    /\ ImageChatCalled
    /\ message = Some(<<>>)
    /\ Len(replies) = 2

\* C18: while an update is processed at most one external call is outstanding;
\* in the delivery loop a reply is sent only when its own pacing delay of 100 ms
\* has elapsed, which starts only after the previous send has completed, and a
\* delay is started for non-empty outputs only.
C18_OneCallAtATime ==
    [][/\ Len(inflight') <= 1
       /\ pc' \in {"done", "failed"} => inflight' = <<>>
       /\ pc' = "text_send" =>
             /\ pc = "text_delay"
             /\ inflight = <<[op |-> "delay", arg |-> 100]>>
             /\ inflight' = <<[op |-> "reply", arg |-> chatMessages[idx]]>>
       /\ pc' = "text_delay" =>
             /\ pc \in {"text_insert_reply", "text_send"}
             /\ chatMessages'[idx'] # <<>>
             /\ replies' = SelectSeq(SubSeq(chatMessages', 1, idx' - 1), NonEmptyOutput)]_vars

C18_Witness ==
    /\ pc = "text_send"
    /\ idx = 3
    /\ chatMessages[2] = <<>>
    /\ Len(replies) = 1

\* C20: no entry is written for an update without a sender identity, and every
\* entry written while an update is processed has the id of the update's human
\* sender as userId.
C20_EveryEntryHasTheSendersId ==
    store # <<>> =>
       /\ IsDef(ctx.from)
       /\ \A k \in 1..Len(store) : store[k].userId = StringOfId(ctx.from)

\* C19: every update that reaches allMessagesHandler and whose calls all return
\* is processed to the end, and at least one reply has been sent by then,
\* whichever path was taken; the processing of an update ends otherwise only by
\* a call that throws.
C19_NoSilentCompletion ==
    (pc # "idle") ~> ((pc = "done" /\ replies # <<>>) \/ pc = "failed")

C19_Witness ==
    /\ pc = "done"
    /\ ChatCalled
    /\ chatMessages = <<>>
    /\ replies = <<sorryICannotUnderstand>>

\* C17: saveTextMessages builds one entry per message, the i-th with the i-th
\* message as payload and the explicit order i counted from zero, all with the
\* invoking user's userId and the given senderId, and submits them in list order
\* in exactly one insertBatch call.
C17_BatchedSave ==
    /\ Len(batchCalls) <= 1
    /\ savePc = "done" => Len(batchCalls) = 1
    /\ batchCalls # <<>> =>
          /\ Len(batchCalls[1]) = Len(saveMessages)
          /\ \A i \in 1..Len(saveMessages) :
                batchCalls[1][i] =
                   [payload |-> saveMessages[i],
                    order |-> i - 1,
                    userId |-> StringOfId(saveFrom),
                    senderId |-> IF saveSenderId = 42 THEN <<"4", "2">> ELSE <<"0">>,
                    type |-> "text"]

C17_Witness ==
    /\ savePc = "done"
    /\ saveMessages = <<<<"a">>, <<"b">>, <<"c">>>>
    /\ saveSenderId = 42
    /\ Len(batchCalls) = 1
    /\ batchCalls[1][3].order = 2

=============================================================================
